---- MODULE Spec2Model ----
(***************************************************************************)
(* The Express application of                                              *)
(* src/nodejs/express/mint-nft-meta-transactions/src/index.js: one route,  *)
(* GET /mint, whose async handler signs and submits one meta transaction   *)
(* through flair-sdk's mintWithTokenURIsByOwner and sends what the call    *)
(* resolved with.  The SDK, the relayer and the chain are the environment: *)
(* the model keeps of them only what the source states (the call is        *)
(* awaited; it resolves with a submitted, not yet mined, meta transaction; *)
(* each GET mints anew).                                                   *)
(***************************************************************************)
EXTENDS Integers, Sequences, FiniteSets, TLC

\* Bounds of the model.
MaxRequests == 3
MaxRestarts == 1

\* What a caller may put in the query string as idempotencyKey; the handler
\* never reads req.
Keys == {"k1", "k2"}
\* The errors the awaited call may reject with (opaque to the handler).
Errors == {"e1", "e2"}

\* index.js:58, 61, 66: the handler's literals.
to == "0x07ac68355ff8663c09644bc50bb02b60140842a8"
count == 2
tokenURIs == <<"ipfs://xxxxx/1", "ipfs://xxxxx/2">>

Requests == 1..MaxRequests
CallIds == 1..MaxRequests

VARIABLES
    pc,       \* pc[r]: where request r's handler is
    key,      \* key[r]: the idempotencyKey request r carried ("" before it arrives)
    calls,    \* the mintWithTokenURIsByOwner invocations made so far, in order
    promise,  \* promise[c]: the promise call c returned
    relay,    \* relay[c]: what the relayer holds of call c's meta transaction
    res,      \* res[r]: the response sent for request r
    epoch     \* how many times the process has been restarted

vars == <<pc, key, calls, promise, relay, res, epoch>>

NoResponse == [kind |-> "none"]
NoPromise == [state |-> "none"]
Pending == [state |-> "pending"]

Init ==
    /\ pc = [r \in Requests |-> "idle"]
    /\ key = [r \in Requests |-> ""]
    /\ calls = <<>>
    /\ promise = [c \in CallIds |-> NoPromise]
    /\ relay = [c \in CallIds |-> "none"]
    /\ res = [r \in Requests |-> NoResponse]
    /\ epoch = 0

\* The calls made on behalf of request r.
CallsOf(r) == {c \in 1..Len(calls) : calls[c].req = r}

\* index.js:69-73: the arguments of the call.
MintCall(r) ==
    [req |-> r, to |-> to, count |-> count, tokenURIs |-> tokenURIs,
     epoch |-> epoch]

\* A handler that consulted a ledger of keys and skipped the call for a key
\* it had already submitted.
InvokeMintOncePerKey(r, k) ==
    IF \E c \in 1..Len(calls) : key[calls[c].req] = k
    THEN calls
    ELSE Append(calls, MintCall(r))

\* index.js:56-73: the handler calls the SDK unconditionally, whatever the
\* request carries (req is never read).
InvokeMint(r, k) == Append(calls, MintCall(r))

\* index.js:54-73: GET /mint arrives and the handler runs up to its await.
Get(r, k) ==
    /\ pc[r] = "idle"
    /\ \A q \in 1..(r - 1) : pc[q] # "idle"
    /\ key' = [key EXCEPT ![r] = k]
    /\ calls' = InvokeMint(r, k)
    /\ promise' = [c \in CallIds |->
                     IF c > Len(calls) /\ c <= Len(calls') THEN Pending
                     ELSE promise[c]]
    /\ pc' = [pc EXCEPT ![r] = "awaiting"]
    /\ UNCHANGED <<relay, res, epoch>>

\* index.js:68-69, 75: the SDK signed the meta transaction, the relayer
\* accepted it, and the awaited promise resolves with it.
SdkResolve(c) ==
    /\ c \in 1..Len(calls)
    /\ promise[c] = Pending
    /\ promise' = [promise EXCEPT ![c] = [state |-> "resolved", data |-> c]]
    /\ relay' = [relay EXCEPT ![c] = "submitted"]
    /\ pc' = [pc EXCEPT ![calls[c].req] =
                 IF pc[calls[c].req] = "awaiting" THEN "resolved"
                 ELSE pc[calls[c].req]]
    /\ UNCHANGED <<key, calls, res, epoch>>

\* index.js:69: the awaited promise rejects (signing or submitting failed).
SdkReject(c, e) ==
    /\ c \in 1..Len(calls)
    /\ promise[c] = Pending
    /\ promise' = [promise EXCEPT ![c] = [state |-> "rejected", err |-> e]]
    /\ pc' = [pc EXCEPT ![calls[c].req] =
                 IF pc[calls[c].req] = "awaiting" THEN "rejected"
                 ELSE pc[calls[c].req]]
    /\ UNCHANGED <<key, calls, relay, res, epoch>>

\* The settled promise the handler of r awaited (the first call made for r).
Awaited(r) == promise[CHOOSE c \in CallsOf(r) : \A d \in CallsOf(r) : c <= d]

\* A handler that answered with the first submission made under the same key.
FirstDataOfKey(r) ==
    LET same == {c \in 1..Len(calls) :
                   /\ key[calls[c].req] = key[r]
                   /\ promise[c].state = "resolved"}
    IN  [kind |-> "data",
         data |-> promise[CHOOSE c \in same : \A d \in same : c <= d].data]

\* index.js:69, 77: data is what the awaited call resolved with.
SendData(r) == [kind |-> "data", data |-> Awaited(r).data]

\* A handler that held the response back until the transaction was mined.
CanSendOnceMined(r) ==
    /\ pc[r] = "resolved"
    /\ \E c \in CallsOf(r) : relay[c] = "mined"

\* index.js:69-77: nothing stands between the await and res.send.
CanSend(r) == pc[r] = "resolved"

\* index.js:75-77: res.send(data).
Send(r) ==
    /\ CanSend(r)
    /\ res' = [res EXCEPT ![r] = SendData(r)]
    /\ pc' = [pc EXCEPT ![r] = "done"]
    /\ UNCHANGED <<key, calls, promise, relay, epoch>>

\* A handler that caught the rejection and answered as if nothing had failed.
SwallowedResponse(e) == [kind |-> "data", data |-> 0]

\* index.js:56: asyncHandler passes the rejection to next(err) unchanged, and
\* Express answers with that error.
ErrorResponse(e) == [kind |-> "error", err |-> e]

\* index.js:56, 69: the await throws; res.send is never reached.
Fail(r) ==
    /\ pc[r] = "rejected"
    /\ res' = [res EXCEPT ![r] = ErrorResponse(Awaited(r).err)]
    /\ pc' = [pc EXCEPT ![r] = "done"]
    /\ UNCHANGED <<key, calls, promise, relay, epoch>>

\* index.js:75-76: a submitted meta transaction is mined some time later, by
\* the relayer and the chain.
Mine(c) ==
    /\ relay[c] = "submitted"
    /\ relay' = [relay EXCEPT ![c] = "mined"]
    /\ UNCHANGED <<pc, key, calls, promise, res, epoch>>

\* index.js:1-52, 81-88: the process stops and starts again.  Everything the
\* program holds is built at load time from the environment; it keeps nothing
\* of the requests it served.  Handlers in flight are lost with their
\* promises; a call in flight may or may not have reached the relayer.
\* (A restart of a run that served no request changes nothing the program or
\* its callers can see, and is left out.)
Restart ==
    /\ epoch < MaxRestarts
    /\ \E c \in 1..Len(calls) : calls[c].epoch = epoch
    /\ epoch' = epoch + 1
    /\ pc' = [r \in Requests |->
                IF pc[r] \in {"awaiting", "resolved", "rejected"} THEN "lost"
                ELSE pc[r]]
    /\ \E reached \in SUBSET {c \in 1..Len(calls) : promise[c] = Pending} :
          /\ relay' = [c \in CallIds |->
                         IF c \in reached THEN "submitted" ELSE relay[c]]
          /\ promise' = [c \in CallIds |->
                           IF promise[c] = Pending
                           THEN [state |-> "abandoned"]
                           ELSE promise[c]]
    /\ UNCHANGED <<key, calls, res>>

Next ==
    \/ \E r \in Requests, k \in Keys : Get(r, k)
    \/ \E c \in CallIds : SdkResolve(c)
    \/ \E c \in CallIds, e \in Errors : SdkReject(c, e)
    \/ \E r \in Requests : Send(r)
    \/ \E r \in Requests : Fail(r)
    \/ \E c \in CallIds : Mine(c)
    \/ Restart

Spec == Init /\ [][Next]_vars

(***************************************************************************)
(* The claims.                                                             *)
(***************************************************************************)

Arrived == {r \in Requests : pc[r] # "idle"}
SameKey(c, d) == key[calls[c].req] = key[calls[d].req]
AtRelay == {c \in 1..Len(calls) : relay[c] # "none"}

SubmittedBeforeRestart(k) ==
    \E c \in 1..Len(calls) :
        /\ key[calls[c].req] = k
        /\ calls[c].epoch < epoch
        /\ promise[c].state = "resolved"
        /\ relay[c] = "submitted"

Failed(r) == CallsOf(r) # {} /\ Awaited(r).state = "rejected"

C10_SendsOnceSubmitted ==
    \A r \in Arrived :
        /\ Cardinality(CallsOf(r)) = 1
        /\ \A c \in CallsOf(r) :
              /\ calls[c].count = Len(calls[c].tokenURIs)
              /\ res[r].kind = "data" =>
                    /\ promise[c].state = "resolved"
                    /\ relay[c] \in {"submitted", "mined"}
              /\ promise[c].state = "rejected" => res[r].kind # "data"
        /\ pc[r] = "resolved" => ENABLED Send(r)

\* C10's case: a success response is out while the meta transaction is
\* submitted and not mined.
C10_Witness ==
    \E r \in Arrived :
        /\ res[r].kind = "data"
        /\ \A c \in CallsOf(r) : relay[c] = "submitted"

====
